---- MODULE Spec2Model ----
(***************************************************************************)
(* Model of aws-smithy-runtime-api/src/http/headers.rs: the string-safe    *)
(* Headers container over http::HeaderMap.                                 *)
(*                                                                         *)
(* Text and header bytes are sequences of byte values (0..255).  A Rust    *)
(* str / String is a byte sequence that is valid UTF-8 by construction; a  *)
(* native http::HeaderValue may hold any header-legal bytes.               *)
(***************************************************************************)
EXTENDS Integers, Sequences, FiniteSets, TLC

VARIABLES headers, prev, op, key, value, raw, result

vars == <<headers, prev, op, key, value, raw, result>>

(***************************************************************************)
(* Bounds                                                                  *)
(***************************************************************************)
\* Largest number of values a Headers holds before insert/append of a new
\* value is no longer explored.
MaxValues == 2
\* Largest number of values of a raw HeaderMap handed to the bulk conversion.
MaxRaw == 2

(***************************************************************************)
(* Byte strings used as inputs                                             *)
(***************************************************************************)
Str_a == <<97>>
Str_b == <<98>>
Str_A == <<65>>
Str_B == <<66>>
Str_1 == <<49>>
Str_empty == <<>>
\* "a\nb"
Str_newline == <<97, 10, 98>>
\* U+1F639, the emoji of headers_can_be_any_string
Str_emoji == <<240, 159, 152, 185>>
\* the bytes of no_panic_try_insert_invalid_header_value: not UTF-8
Bytes_C080 == <<192, 128>>

(***************************************************************************)
(* Results: Ok(val), Err(err) (a typed HttpError) or a panic.              *)
(* Option<T> is a sequence of length 0 (None) or 1 (Some).                 *)
(***************************************************************************)
Ok(v) == [kind |-> "Ok", val |-> <<v>>, err |-> "none"]
Err(e) == [kind |-> "Err", val |-> <<>>, err |-> e]
Panic == [kind |-> "Panic", val |-> <<>>, err |-> "none"]
None == <<>>
Some(v) == <<v>>

\* Result::unwrap / Result::expect: an Err becomes a panic
unwrap(r) == IF r.kind = "Ok" THEN r ELSE Panic

(***************************************************************************)
(* std::str::from_utf8                                                     *)
(***************************************************************************)
IsCont(b) == b >= 128 /\ b <= 191

RECURSIVE Utf8From(_, _)
Utf8From(s, i) ==
    IF i > Len(s) THEN TRUE
    ELSE LET b == s[i]
             has(n) == i + n <= Len(s)
         IN  IF b < 128 THEN Utf8From(s, i + 1)
             ELSE IF b >= 194 /\ b <= 223
                  THEN has(1) /\ IsCont(s[i + 1]) /\ Utf8From(s, i + 2)
             ELSE IF b >= 224 /\ b <= 239
                  THEN /\ has(2)
                       /\ IF b = 224 THEN s[i + 1] >= 160 /\ s[i + 1] <= 191
                          ELSE IF b = 237 THEN s[i + 1] >= 128 /\ s[i + 1] <= 159
                          ELSE IsCont(s[i + 1])
                       /\ IsCont(s[i + 2])
                       /\ Utf8From(s, i + 3)
             ELSE IF b >= 240 /\ b <= 244
                  THEN /\ has(3)
                       /\ IF b = 240 THEN s[i + 1] >= 144 /\ s[i + 1] <= 191
                          ELSE IF b = 244 THEN s[i + 1] >= 128 /\ s[i + 1] <= 143
                          ELSE IsCont(s[i + 1])
                       /\ IsCont(s[i + 2])
                       /\ IsCont(s[i + 3])
                       /\ Utf8From(s, i + 4)
             ELSE FALSE

from_utf8(bytes) == IF Utf8From(bytes, 1) THEN Ok(bytes) ELSE Err("HeaderWasNotAString")

(***************************************************************************)
(* http::HeaderName and http::HeaderValue construction                     *)
(***************************************************************************)
is_ascii_uppercase(b) == b >= 65 /\ b <= 90
is_ascii_lowercase(b) == b >= 97 /\ b <= 122

to_ascii_uppercase(s) ==
    [i \in 1..Len(s) |-> IF is_ascii_lowercase(s[i]) THEN s[i] - 32 ELSE s[i]]

\* http's HEADER_CHARS table: the normalised (lowercase) byte of a legal
\* header-name byte, 0 for an illegal one.
HEADER_CHARS(b) ==
    IF is_ascii_uppercase(b) THEN b + 32
    ELSE IF is_ascii_lowercase(b) \/ (b >= 48 /\ b <= 57) THEN b
    ELSE IF b \in {33, 35, 36, 37, 38, 39, 42, 43, 45, 46, 94, 95, 96, 124, 126} THEN b
    ELSE 0

\* http's HEADER_CHARS_H2 table: as HEADER_CHARS, but uppercase is illegal.
HEADER_CHARS_H2(b) == IF is_ascii_uppercase(b) THEN 0 ELSE HEADER_CHARS(b)

\* HeaderName::try_from(&str / String): validates and normalises to lowercase
HeaderName_try_from(s) ==
    IF Len(s) = 0 \/ \E i \in 1..Len(s) : HEADER_CHARS(s[i]) = 0
    THEN Err("InvalidHeaderName")
    ELSE Ok([i \in 1..Len(s) |-> HEADER_CHARS(s[i])])

\* HeaderName::from_static(&'static str): panics on an illegal or uppercase byte
HeaderName_from_static(s) ==
    IF Len(s) = 0 \/ \E i \in 1..Len(s) : HEADER_CHARS_H2(s[i]) = 0
    THEN Panic
    ELSE Ok(s)

\* http::HeaderValue's is_valid and is_visible_ascii
is_valid(b) == (b >= 32 /\ b # 127) \/ b = 9
is_visible_ascii(b) == (b >= 32 /\ b < 127) \/ b = 9

\* http::HeaderValue::try_from(&str / String)
HeaderValue_try_from(s) ==
    IF \A i \in 1..Len(s) : is_valid(s[i]) THEN Ok(s) ELSE Err("InvalidHeaderValue")

\* http::HeaderValue::from_static(&'static str)
HeaderValue_from_static(s) ==
    IF \A i \in 1..Len(s) : is_visible_ascii(s[i]) THEN Ok(s) ELSE Panic

(***************************************************************************)
(* Validated HeaderValue (mod header_value)                                *)
(***************************************************************************)
\* HeaderValue::from_http02x: the UTF-8 check made once, at construction
from_http02x(v) == IF Utf8From(v, 1) THEN Ok(v) ELSE Err("Utf8Error")

\* AsRef<str> for HeaderValue: expect("unreachable - only strings may be stored")
as_ref(v) == unwrap(from_utf8(v))

\* TryFrom<String> for HeaderValue, FromStr for HeaderValue ("..".parse())
HeaderValue_parse(s) ==
    LET h == HeaderValue_try_from(s)
    IN  IF h.kind # "Ok" THEN h ELSE unwrap(from_http02x(h.val[1]))

(***************************************************************************)
(* Header component coercion (mod sealed).  A component is                 *)
(*   [kind, bytes], kind in Static (&'static str, Cow::Borrowed),          *)
(*   Owned (String, Cow::Owned), NativeValue (http::HeaderValue),          *)
(*   NativeName (http::HeaderName).                                        *)
(* MaybeStatic is [cow, s] with cow in Borrowed, Owned.                    *)
(***************************************************************************)
Comp(k, b) == [kind |-> k, bytes |-> b]
Borrowed(s) == [cow |-> "Borrowed", s |-> s]
Owned(s) == [cow |-> "Owned", s |-> s]

into_maybe_static(c) ==
    CASE c.kind = "Static" -> Ok(Borrowed(c.bytes))
      [] c.kind = "Owned" -> Ok(Owned(c.bytes))
      [] c.kind = "NativeValue" ->
            LET u == from_utf8(c.bytes)
            IN  IF u.kind = "Ok" THEN Ok(Owned(u.val[1])) ELSE u
      [] c.kind = "NativeName" -> Ok(Owned(c.bytes))

\* AsHeaderComponent for Cow<'static, str>: the component a MaybeStatic is
AsComponent(m) == Comp(IF m.cow = "Borrowed" THEN "Static" ELSE "Owned", m.s)

(***************************************************************************)
(* header_name / header_value                                              *)
(***************************************************************************)
\* header_name without the uppercase branch
header_name_NoCaseBranch(name, panic_safe) ==
    IF name.kind = "NativeName" THEN Ok(name.bytes)
    ELSE LET m == into_maybe_static(name)
         IN  IF m.kind # "Ok" THEN m
             ELSE LET cow == m.val[1]
                  IN  IF cow.cow = "Borrowed" /\ panic_safe THEN HeaderName_try_from(cow.s)
                      ELSE IF cow.cow = "Borrowed" THEN HeaderName_from_static(cow.s)
                      ELSE HeaderName_try_from(cow.s)

header_name(name, panic_safe) ==
    IF name.kind = "NativeName" THEN Ok(name.bytes)
    ELSE LET m == into_maybe_static(name)
         IN  IF m.kind # "Ok" THEN m
             ELSE LET cow0 == m.val[1]
                      cow == IF \E i \in 1..Len(cow0.s) : is_ascii_uppercase(cow0.s[i])
                             THEN Owned(to_ascii_uppercase(cow0.s))
                             ELSE cow0
                  IN  IF cow.cow = "Borrowed" /\ panic_safe THEN HeaderName_try_from(cow.s)
                      ELSE IF cow.cow = "Borrowed" THEN HeaderName_from_static(cow.s)
                      ELSE HeaderName_try_from(cow.s)

\* header_value that takes the from_static branch whatever panic_safe is
header_value_AlwaysStatic(v, panic_safe) ==
    LET header == IF v.cow = "Borrowed" THEN HeaderValue_from_static(v.s)
                  ELSE HeaderValue_try_from(v.s)
    IN  IF header.kind # "Ok" THEN header
        ELSE LET w == from_http02x(header.val[1])
             IN  IF w.kind = "Ok" THEN w ELSE Err("Other")

header_value(v, panic_safe) ==
    LET header == IF v.cow = "Borrowed" /\ panic_safe THEN HeaderValue_try_from(v.s)
                  ELSE IF v.cow = "Borrowed" THEN HeaderValue_from_static(v.s)
                  ELSE HeaderValue_try_from(v.s)
    IN  IF header.kind # "Ok" THEN header
        ELSE LET w == from_http02x(header.val[1])
             IN  IF w.kind = "Ok" THEN w ELSE Err("Other")

(***************************************************************************)
(* http::HeaderMap: a sequence of entries [name, vals] in storage order,   *)
(* names distinct, vals the nonempty ordered values of the name.           *)
(***************************************************************************)
EmptyMap == <<>>

\* index of the entry of a (normalised) name, 0 when absent
find(m, n) == IF \E i \in 1..Len(m) : m[i].name = n
              THEN CHOOSE i \in 1..Len(m) : m[i].name = n
              ELSE 0

\* lookup by &str: the text is parsed as a header name (normalising case); a
\* text that is no legal name finds nothing
find_str(m, k) ==
    LET n == HeaderName_try_from(k)
    IN  IF n.kind = "Ok" THEN find(m, n.val[1]) ELSE 0

\* HeaderMap::insert -> (map, Option<old first value>)
HeaderMap_insert(m, n, v) ==
    LET i == find(m, n)
    IN  IF i = 0 THEN <<Append(m, [name |-> n, vals |-> <<v>>]), None>>
        ELSE <<[m EXCEPT ![i].vals = <<v>>], Some(m[i].vals[1])>>

\* HeaderMap::append -> (map, key was present)
HeaderMap_append(m, n, v) ==
    LET i == find(m, n)
    IN  IF i = 0 THEN <<Append(m, [name |-> n, vals |-> <<v>>]), FALSE>>
        ELSE <<[m EXCEPT ![i].vals = Append(@, v)], TRUE>>

\* HeaderMap::remove(&str) -> (map, Option<first value>); the entry is
\* swap-removed: the last entry takes its place
HeaderMap_remove(m, k) ==
    LET i == find_str(m, k)
        n == Len(m)
    IN  IF i = 0 THEN <<m, None>>
        ELSE <<[j \in 1..(n - 1) |-> IF j = i THEN m[n] ELSE m[j]], Some(m[i].vals[1])>>

RECURSIVE HeaderMap_len(_)
HeaderMap_len(m) == IF m = <<>> THEN 0 ELSE Len(m[1].vals) + HeaderMap_len(Tail(m))

\* HeaderMap::iter / into_iter: one (name, value) per value, entries in
\* storage order, the values of an entry in insertion order
RECURSIVE HeaderMap_iter(_)
HeaderMap_iter(m) ==
    IF m = <<>> THEN <<>>
    ELSE [i \in 1..Len(m[1].vals) |-> <<m[1].name, m[1].vals[i]>>] \o HeaderMap_iter(Tail(m))

\* HeaderMap::values
HeaderMap_values(m) == [i \in 1..Len(HeaderMap_iter(m)) |-> HeaderMap_iter(m)[i][2]]

(***************************************************************************)
(* Headers: each operation yields [res, headers]: its result and the map   *)
(* it leaves behind.                                                       *)
(***************************************************************************)
Out(r, h) == [res |-> r, headers |-> h]

\* Option<HeaderValue> -> Option<String> through AsRef<str>
into_string(o) == IF o = None THEN Ok(None)
                  ELSE LET t == as_ref(o[1])
                       IN  IF t.kind = "Ok" THEN Ok(Some(t.val[1])) ELSE Panic

\* Headers::get
get(h, k) == LET i == find_str(h, k)
             IN  IF i = 0 THEN Ok(None) ELSE into_string(Some(h[i].vals[1]))

\* Headers::get_all, as the sequence the iterator yields
get_all(h, k) == LET i == find_str(h, k)
                 IN  IF i = 0 THEN <<>> ELSE h[i].vals

\* Headers::iter / IntoIterator for &Headers
iter(h) == HeaderMap_iter(h)

\* Headers::len, Headers::is_empty, Headers::contains_key
len(h) == HeaderMap_len(h)
is_empty(h) == len(h) = 0
contains_key(h, k) == find_str(h, k) # 0

\* Headers::insert that keeps the values already stored for the key
insert_Keeps(h, k, v) ==
    LET name == unwrap(header_name(k, FALSE))
        ms == unwrap(into_maybe_static(v))
        val == IF ms.kind = "Ok" THEN unwrap(header_value(ms.val[1], FALSE)) ELSE Panic
    IN  IF name.kind # "Ok" \/ val.kind # "Ok" THEN Out(Panic, h)
        ELSE LET i == find(h, name.val[1])
                 r == HeaderMap_append(h, name.val[1], val.val[1])
             IN  Out(into_string(IF i = 0 THEN None ELSE Some(h[i].vals[1])), r[1])

\* Headers::insert
insert(h, k, v) ==
    LET name == unwrap(header_name(k, FALSE))
        ms == unwrap(into_maybe_static(v))
        val == IF ms.kind = "Ok" THEN unwrap(header_value(ms.val[1], FALSE)) ELSE Panic
    IN  IF name.kind # "Ok" \/ val.kind # "Ok" THEN Out(Panic, h)
        ELSE LET r == HeaderMap_insert(h, name.val[1], val.val[1])
             IN  Out(into_string(r[2]), r[1])

\* Headers::try_insert that clears the key before it validates the value
try_insert_ClearsFirst(h, k, v) ==
    LET name == header_name(k, TRUE)
        ms == into_maybe_static(v)
        val == IF ms.kind = "Ok" THEN header_value(ms.val[1], TRUE) ELSE ms
    IN  IF name.kind # "Ok" THEN Out(name, h)
        ELSE LET i == find(h, name.val[1])
                 cleared == IF i = 0 THEN h
                            ELSE [j \in 1..(Len(h) - 1) |-> IF j < i THEN h[j] ELSE h[j + 1]]
             IN  IF val.kind # "Ok" THEN Out(val, cleared)
                 ELSE LET r == HeaderMap_insert(h, name.val[1], val.val[1])
                      IN  Out(into_string(r[2]), r[1])

\* Headers::try_insert
try_insert(h, k, v) ==
    LET name == header_name(k, TRUE)
        ms == into_maybe_static(v)
        val == IF ms.kind = "Ok" THEN header_value(ms.val[1], TRUE) ELSE ms
    IN  IF name.kind # "Ok" THEN Out(name, h)
        ELSE IF val.kind # "Ok" THEN Out(val, h)
        ELSE LET r == HeaderMap_insert(h, name.val[1], val.val[1])
             IN  Out(into_string(r[2]), r[1])

\* Headers::append that replaces the values already stored for the key
append_Replaces(h, k, v) ==
    LET km == unwrap(into_maybe_static(k))
        name == IF km.kind = "Ok" THEN unwrap(header_name(AsComponent(km.val[1]), FALSE))
                ELSE Panic
        ms == unwrap(into_maybe_static(v))
        val == IF ms.kind = "Ok" THEN unwrap(header_value(ms.val[1], FALSE)) ELSE Panic
    IN  IF name.kind # "Ok" \/ val.kind # "Ok" THEN Out(Panic, h)
        ELSE LET r == HeaderMap_insert(h, name.val[1], val.val[1])
             IN  Out(Ok(r[2] # None), r[1])

\* Headers::append
append(h, k, v) ==
    LET km == unwrap(into_maybe_static(k))
        name == IF km.kind = "Ok" THEN unwrap(header_name(AsComponent(km.val[1]), FALSE))
                ELSE Panic
        ms == unwrap(into_maybe_static(v))
        val == IF ms.kind = "Ok" THEN unwrap(header_value(ms.val[1], FALSE)) ELSE Panic
    IN  IF name.kind # "Ok" \/ val.kind # "Ok" THEN Out(Panic, h)
        ELSE LET r == HeaderMap_append(h, name.val[1], val.val[1])
             IN  Out(Ok(r[2]), r[1])

\* Headers::try_append
try_append(h, k, v) ==
    LET km == into_maybe_static(k)
        name == IF km.kind = "Ok" THEN header_name(AsComponent(km.val[1]), TRUE) ELSE km
        ms == into_maybe_static(v)
        val == IF ms.kind = "Ok" THEN header_value(ms.val[1], TRUE) ELSE ms
    IN  IF name.kind # "Ok" THEN Out(name, h)
        ELSE IF val.kind # "Ok" THEN Out(val, h)
        ELSE LET r == HeaderMap_append(h, name.val[1], val.val[1])
             IN  Out(Ok(r[2]), r[1])

\* Headers::remove that drops only the first value of the key
remove_FirstOnly(h, k) ==
    LET i == find_str(h, k)
    IN  IF i = 0 THEN Out(Ok(None), h)
        ELSE IF Len(h[i].vals) = 1 THEN Out(into_string(Some(h[i].vals[1])), HeaderMap_remove(h, k)[1])
        ELSE Out(into_string(Some(h[i].vals[1])), [h EXCEPT ![i].vals = Tail(@)])

\* Headers::remove
remove(h, k) ==
    LET r == HeaderMap_remove(h, k)
    IN  Out(into_string(r[2]), r[1])

(***************************************************************************)
(* TryFrom<HeaderMap> for Headers                                          *)
(***************************************************************************)
\* HeaderMap::into_iter: (Some(name), v) for the first value of an entry,
\* (None, v) for its further values
RECURSIVE into_iter(_)
into_iter(m) ==
    IF m = <<>> THEN <<>>
    ELSE [i \in 1..Len(m[1].vals) |->
            <<IF i = 1 THEN Some(m[1].name) ELSE None, m[1].vals[i]>>] \o into_iter(Tail(m))

\* HeaderMap::extend over (Option<HeaderName>, value) items: a named item
\* replaces or creates its entry, an unnamed one appends to the entry of the
\* last named item (cur)
RECURSIVE extend(_, _, _)
extend(m, items, cur) ==
    IF items = <<>> THEN m
    ELSE LET k == items[1][1]
             v == items[1][2]
         IN  IF k # None
             THEN extend(HeaderMap_insert(m, k[1], v)[1], Tail(items), k[1])
             ELSE extend(HeaderMap_append(m, cur, v)[1], Tail(items), cur)

\* the conversion without the UTF-8 scan and with the values wrapped unchecked
try_from_Unchecked(r) == Ok(extend(EmptyMap, into_iter(r), <<>>))

\* the conversion whose scan looks at the first value only
try_from_FirstOnly(r) ==
    LET vs == HeaderMap_values(r)
    IN  IF vs # <<>> /\ from_utf8(vs[1]).kind # "Ok" THEN Err("HeaderWasNotAString")
        ELSE IF \E i \in 1..Len(vs) : unwrap(from_http02x(vs[i])).kind # "Ok" THEN Panic
        ELSE Ok(extend(EmptyMap, into_iter(r), <<>>))

\* try_from(value: HeaderMap) -> Result<Headers, HttpError>
try_from(r) ==
    LET vs == HeaderMap_values(r)
    IN  IF \E i \in 1..Len(vs) : from_utf8(vs[i]).kind # "Ok" THEN Err("HeaderWasNotAString")
        ELSE IF \E i \in 1..Len(vs) : unwrap(from_http02x(vs[i])).kind # "Ok" THEN Panic
        ELSE Ok(extend(EmptyMap, into_iter(r), <<>>))

(***************************************************************************)
(* Inputs                                                                  *)
(***************************************************************************)
NoComp == Comp("None", <<>>)

KeyInputs ==
    { Comp("Static", Str_a), Comp("Static", Str_A), Comp("Static", Str_emoji),
      Comp("Owned", Str_B), Comp("Owned", Str_emoji), Comp("Owned", Str_empty),
      Comp("Owned", Str_newline), Comp("NativeName", Str_b),
      Comp("NativeValue", Bytes_C080) }

ValueInputs ==
    { Comp("Static", Str_1), Comp("Static", Str_emoji), Comp("Owned", Str_emoji),
      Comp("Owned", Str_newline), Comp("NativeValue", Bytes_C080) }

\* texts handed to get / get_all / contains_key / remove
LookupKeys == { Str_a, Str_A, Str_b, Str_emoji, Str_empty }

\* raw http::HeaderMap<http::HeaderValue> collections: every map built by
\* appending at most MaxRaw (name, value) pairs to an empty map
RawNames == { Str_a, Str_b }
RawValues == { Str_1, Bytes_C080 }

RECURSIVE BuildRaw(_)
BuildRaw(ps) ==
    IF ps = <<>> THEN EmptyMap
    ELSE HeaderMap_append(BuildRaw(SubSeq(ps, 1, Len(ps) - 1)), ps[Len(ps)][1], ps[Len(ps)][2])[1]

RawMaps == { BuildRaw(ps) : ps \in UNION { [1..n -> RawNames \X RawValues] : n \in 0..MaxRaw } }

(***************************************************************************)
(* State machine: one Headers value, the last operation applied to it,    *)
(* its arguments and result, and the map before it (prev).                 *)
(***************************************************************************)
Init ==
    /\ headers = EmptyMap
    /\ prev = EmptyMap
    /\ op = "new"
    /\ key = NoComp
    /\ value = NoComp
    /\ raw = EmptyMap
    /\ result = Ok(None)

Apply(name, k, v, out) ==
    /\ len(out.headers) <= MaxValues
    /\ headers' = out.headers
    /\ prev' = headers
    /\ op' = name
    /\ key' = k
    /\ value' = v
    /\ raw' = EmptyMap
    /\ result' = out.res

Insert == \E k \in KeyInputs, v \in ValueInputs : Apply("insert", k, v, insert(headers, k, v))

TryInsert == \E k \in KeyInputs, v \in ValueInputs : Apply("try_insert", k, v, try_insert(headers, k, v))

AppendValue == \E k \in KeyInputs, v \in ValueInputs : Apply("append", k, v, append(headers, k, v))

TryAppend == \E k \in KeyInputs, v \in ValueInputs : Apply("try_append", k, v, try_append(headers, k, v))

Remove == \E k \in LookupKeys : Apply("remove", Comp("Static", k), NoComp, remove(headers, k))

\* a Headers replaced by the result of a bulk conversion; a failed
\* conversion yields no Headers and the one at hand stays
TryFrom ==
    \E r \in RawMaps :
        LET res == try_from(r)
        IN  /\ headers' = IF res.kind = "Ok" THEN res.val[1] ELSE headers
            /\ prev' = headers
            /\ op' = "try_from"
            /\ key' = NoComp
            /\ value' = NoComp
            /\ raw' = r
            /\ result' = res

Next == Insert \/ TryInsert \/ AppendValue \/ TryAppend \/ Remove \/ TryFrom

Spec == Init /\ [][Next]_vars

(***************************************************************************)
(* Properties                                                              *)
(***************************************************************************)
Mutators == {"insert", "try_insert", "append", "try_append"}

\* the lowercase form of a text
ToLower(s) == [i \in 1..Len(s) |-> IF s[i] >= 65 /\ s[i] <= 90 THEN s[i] + 32 ELSE s[i]]
ToUpper(s) == [i \in 1..Len(s) |-> IF s[i] >= 97 /\ s[i] <= 122 THEN s[i] - 32 ELSE s[i]]
HasUpper(s) == \E i \in 1..Len(s) : s[i] >= 65 /\ s[i] <= 90
CaseVariants(s) == {s, ToLower(s), ToUpper(s)}

\* the entries of a map under names other than the one text k denotes
Others(m, k) == { m[i] : i \in { j \in 1..Len(m) : j # find_str(m, k) } }

\* the first value stored for k, as the Option the operations return
First(m, k) == IF contains_key(m, k) THEN Some(get_all(m, k)[1]) ELSE None

\* C1: try_insert and try_append never panic, whatever the key and value
\* (the empty string, non-ASCII text, control characters, any input kind):
\* they return Ok or a typed HttpError.
C1_TryNeverPanics ==
    op \in {"try_insert", "try_append"} =>
        /\ result.kind \in {"Ok", "Err"}
        /\ result.kind = "Err" =>
              result.err \in {"InvalidHeaderName", "InvalidHeaderValue", "HeaderWasNotAString", "Other"}

\* try_insert(s, s) was called with the emoji text and returned an error
C1_Witness ==
    /\ op = "try_insert"
    /\ key = Comp("Owned", Str_emoji)
    /\ value = key
    /\ result.kind = "Err"

\* C2: every value stored in the container is valid UTF-8, so the string
\* views of get, get_all and iter never hit the "unreachable" panic.
C2_StoredValuesUtf8 ==
    /\ \A i \in 1..Len(headers) : \A j \in 1..Len(headers[i].vals) :
          /\ Utf8From(headers[i].vals[j], 1)
          /\ as_ref(headers[i].vals[j]).kind = "Ok"
    /\ \A k \in LookupKeys : get(headers, k).kind = "Ok"

\* a native header value that is not UTF-8 was supplied to a container that
\* holds values
C2_Witness ==
    /\ op \in Mutators
    /\ value = Comp("NativeValue", Bytes_C080)
    /\ len(headers) > 0

\* C3: an insert that returns leaves exactly the new value under the key,
\* leaves every other key as it was, and returns the first value the key
\* had before, or None.
C3_InsertReplaces ==
    (op = "insert" /\ result.kind = "Ok") =>
        /\ get_all(headers, key.bytes) = <<value.bytes>>
        /\ Others(headers, key.bytes) = Others(prev, key.bytes)
        /\ result.val[1] = First(prev, key.bytes)

\* an insert replaced two values of its key and returned the first
C3_Witness ==
    /\ op = "insert"
    /\ result.kind = "Ok"
    /\ Len(get_all(prev, key.bytes)) = 2
    /\ get_all(prev, key.bytes)[1] # get_all(prev, key.bytes)[2]
    /\ result.val[1] = Some(get_all(prev, key.bytes)[1])

\* C4: an append that returns adds the value after the values the key had,
\* keeps get(k) on the first value of a key that existed, and returns TRUE
\* exactly when the key was present before.
C4_AppendKeeps ==
    (op = "append" /\ result.kind = "Ok") =>
        /\ get_all(headers, key.bytes) = Append(get_all(prev, key.bytes), value.bytes)
        /\ contains_key(prev, key.bytes) => get(headers, key.bytes) = get(prev, key.bytes)
        /\ result.val[1] = contains_key(prev, key.bytes)

\* an append to a key that already had a different value
C4_Witness ==
    /\ op = "append"
    /\ result = Ok(TRUE)
    /\ Len(get_all(headers, key.bytes)) = 2
    /\ get_all(headers, key.bytes)[1] # get_all(headers, key.bytes)[2]

\* C5: remove deletes every value of the key and returns the first; the key
\* is then absent; no entry is left with zero values; removing an absent key
\* returns None and changes nothing.
C5_RemoveAll ==
    op = "remove" =>
        /\ result = Ok(First(prev, key.bytes))
        /\ ~contains_key(headers, key.bytes)
        /\ get_all(headers, key.bytes) = <<>>
        /\ \A i \in 1..Len(headers) : headers[i].vals # <<>>
        /\ ~contains_key(prev, key.bytes) => (headers = prev /\ len(headers) = len(prev))

\* a remove of a key that held two values
C5_Witness ==
    /\ op = "remove"
    /\ Len(get_all(prev, key.bytes)) = 2
    /\ result.kind = "Ok"
    /\ result.val[1] # None

\* the value argument is one insert/append accept
ValueAccepted(v) ==
    /\ into_maybe_static(v).kind = "Ok"
    /\ header_value(into_maybe_static(v).val[1], FALSE).kind = "Ok"

\* a text key that is a legal header name with an uppercase letter
UpperCaseKey(k) ==
    /\ k.kind \in {"Static", "Owned"}
    /\ HasUpper(k.bytes)
    /\ \A i \in 1..Len(k.bytes) : HEADER_CHARS(k.bytes[i]) # 0

\* C6 as stated: after insert or append under a key with uppercase letters
\* the call has not panicked, iteration shows the lowercase key, and get
\* under every case variant returns the value just given.
C6_GetReturnsNewValue ==
    (op \in {"insert", "append"} /\ UpperCaseKey(key) /\ ValueAccepted(value)) =>
        /\ result.kind = "Ok"
        /\ \E i \in 1..Len(iter(headers)) : iter(headers)[i][1] = ToLower(key.bytes)
        /\ \A k \in CaseVariants(key.bytes) : get(headers, k) = Ok(Some(value.bytes))

\* C6, amended: after insert or append under a key with uppercase letters
\* the call has not panicked, iteration shows the lowercase key and never
\* the key as given, and under every case variant get returns the value
\* given after insert, and after append the first value stored for the key
\* (the value given when the key was absent), the value given being the
\* last of get_all.
C6_KeyLowercased ==
    (op \in {"insert", "append"} /\ UpperCaseKey(key) /\ ValueAccepted(value)) =>
        /\ result.kind = "Ok"
        /\ \E i \in 1..Len(iter(headers)) : iter(headers)[i][1] = ToLower(key.bytes)
        /\ \A i \in 1..Len(iter(headers)) : iter(headers)[i][1] # key.bytes
        /\ \A k \in CaseVariants(key.bytes) :
              /\ get_all(headers, k) # <<>>
              /\ get_all(headers, k)[Len(get_all(headers, k))] = value.bytes
              /\ get(headers, k) =
                    IF op = "insert" \/ ~contains_key(prev, k)
                    THEN Ok(Some(value.bytes))
                    ELSE get(prev, k)

\* an insert under the static key "A" into an empty container
C6_Witness ==
    /\ op = "insert"
    /\ key = Comp("Static", Str_A)
    /\ result.kind = "Ok"
    /\ get(headers, Str_a) = Ok(Some(value.bytes))

C8_TwinsAgree ==
    /\ op = "try_insert" =>
          LET o == insert(prev, key, value)
          IN  /\ (result.kind = "Err") <=> (o.res.kind = "Panic")
              /\ result.kind = "Ok" => (o.res = result /\ o.headers = headers)
    /\ op = "try_append" =>
          LET o == append(prev, key, value)
          IN  /\ (result.kind = "Err") <=> (o.res.kind = "Panic")
              /\ result.kind = "Ok" => (o.res = result /\ o.headers = headers)

\* a key that is a legal header name
LegalKey(k) == k.kind = "NativeName" \/ (k.kind \in {"Static", "Owned"} /\ HeaderName_try_from(k.bytes).kind = "Ok")

\* C9: the emoji text is accepted as a value by parsing and by the value
\* argument of insert, append, try_insert and try_append, and rejected as a
\* name: an error from the try_ operations, a panic from the others.
C9_EmojiValueAccepted ==
    /\ HeaderValue_parse(Str_emoji).kind = "Ok"
    /\ (op \in Mutators /\ value.bytes = Str_emoji /\ LegalKey(key)) => result.kind = "Ok"
    /\ (op \in {"try_insert", "try_append"} /\ key.bytes = Str_emoji) =>
          (result.kind = "Err" /\ result.err = "InvalidHeaderName")
    /\ (op \in {"insert", "append"} /\ key.bytes = Str_emoji) => result.kind = "Panic"

\* C10: a try_insert or try_append that returns an error leaves the
\* container as it was: same count, same keys, same ordered values.
C10_ErrorLeavesUnchanged ==
    (op \in {"try_insert", "try_append"} /\ result.kind = "Err") =>
        /\ headers = prev
        /\ len(headers) = len(prev)
        /\ iter(headers) = iter(prev)

\* a try_insert under a key the container holds failed on its value
C10_Witness ==
    /\ op = "try_insert"
    /\ result.kind = "Err"
    /\ result.err # "InvalidHeaderName"
    /\ contains_key(prev, key.bytes)

====
